---- MODULE Spec2Model ----
(***************************************************************************)
(* Smart slot selection of the Propose Times extension (slotSelection.ts), *)
(* its calendar providers (calcom.ts, savvycal.ts) and the message built   *)
(* from the fetched slots (propose-times.tsx).                             *)
(*                                                                         *)
(* Instants are whole minutes counted from 2026-01-07T00:00:00Z, the day   *)
(* the repository's tests use.  A start_at / end_at string is a record     *)
(* [t, enc]: t is the instant the string denotes and enc tells which ISO   *)
(* spelling is used (0: "2026-01-07T11:00:00Z", 1:                         *)
(* "2026-01-07T11:00:00.000Z").  Two strings are the same string iff the   *)
(* records are equal; new Date(s).getTime() reads only the instant.        *)
(* A score is the exact fraction the floating point expression denotes,    *)
(* kept in lowest terms as [num, den].                                     *)
(***************************************************************************)
EXTENDS Integers, Sequences, FiniteSets, TLC

VARIABLES op, pc, slots, timezone, maxSlots, increment, gapsIn,
          result, uniqueSlots, gaps, scoredSlots, majorityBucket,
          diversitySlot, bucketOut, scoreOut,
          config, replies, requests, eventType, linkInfo, fetched, error,
          lines,
          startDate, endDate, fetchResult, copyFails,
          isLoading, toast, clipboard, hud

\* the arguments of the call
argVars == <<op, slots, timezone, maxSlots, increment, gapsIn>>

\* the arguments passed by value
callVars == <<op, timezone, maxSlots, increment, gapsIn>>

\* the locals and the return value of selectSmartSlots
selectVars == <<result, uniqueSlots, scoredSlots, majorityBucket, diversitySlot>>

\* one fetchSlots call of a provider: its config argument, the replies
\* the server gives to its requests, the requests issued so far, its locals
\* and its outcome
provVars == <<config, replies, requests, eventType, linkInfo, fetched, error>>

\* the form state handleSubmit reads and what its awaited calls will do
submitIn == <<startDate, endDate, fetchResult, copyFails>>

\* the state handleSubmit writes
submitOut == <<isLoading, toast, clipboard, hud>>

submitVars == <<submitIn, submitOut>>

vars == <<pc, argVars, selectVars, gaps, bucketOut, scoreOut, provVars, lines,
          submitVars>>

----------------------------------------------------------------------------
(* Bounds of the explored inputs *)

\* longest slot list drawn from the full slot universe (any order, duplicates)
MaxLen == 3

\* largest maxSlots argument
MaxMaxSlots == 4

\* longest list of which every reordering is compared
PermLen == 3

\* longest gap list handed to scoreSlotByProximity
MaxGaps == 2

\* default value of the maxSlots parameter
DefaultMaxSlots == 4

\* default value of the incrementMinutes parameter of detectGaps
DefaultIncrement == 30

\* decay constant of the proximity score, in minutes
DecayMinutes == 30

MinutesPerDay == 24 * 60

\* most event types in an event-types reply, most links in a links reply
MaxEntries == 2

\* most slots of one day of a Cal.com slots reply, most slots in a SavvyCal
\* slots reply
MaxReplySlots == 2

\* most days in a Cal.com slots reply
MaxDays == 2

\* duration used when the provider names none
FallbackDuration == 30

\* slots shown per day of the message
SlotsPerDay == 4

\* days between the default start and end date of the form
DefaultDaysAhead == 10

----------------------------------------------------------------------------
(* Values *)

Buckets == <<"morning", "afternoon", "evening">>

Timezones == {"UTC", "America/New_York", "Asia/Tokyo"}

\* offset of the zone from UTC in minutes on the modelled day (January)
ZoneOffset(tz) ==
    CASE tz = "UTC" -> 0
      [] tz = "America/New_York" -> -300
      [] tz = "Asia/Tokyo" -> 540

IsoString(t, enc) == [t |-> t, enc |-> enc]

MkSlot(t, enc, dur) ==
    [start_at |-> IsoString(t, enc), end_at |-> IsoString(t + dur, enc)]

\* new Date(s).getTime()
ParseDate(s) == s.t

\* new Date(t).toISOString() always writes the milliseconds
ToISOString(t) == IsoString(t, 1)

\* an optional value: absent, or present with value x
None == <<>>

Some(x) == <<x>>

\* the array with elements f[1] .. f[n], each computed once
Array(f, n) == SubSeq(f, 1, n)

Min(a, b) == IF a < b THEN a ELSE b

Abs(x) == IF x < 0 THEN -x ELSE x

RECURSIVE GCD(_, _)
GCD(a, b) == IF b = 0 THEN a ELSE GCD(b, a % b)

Frac(n, d) == [num |-> n \div GCD(n, d), den |-> d \div GCD(n, d)]

\* a.score < b.score
ScoreLess(a, b) == a.num * b.den < b.num * a.den

----------------------------------------------------------------------------
(* getTimeBucket *)

\* mutant: the UTC hour is used, the zone is ignored
LocalHourUtc(slot, tz) == (ParseDate(slot.start_at) % MinutesPerDay) \div 60

\* utcToZonedTime(new Date(slot.start_at), timezone).getHours()
LocalHour(slot, tz) ==
    LET shifted == ParseDate(slot.start_at) + ZoneOffset(tz)
        wrapped == shifted % MinutesPerDay
        minuteOfDay == (wrapped + MinutesPerDay) % MinutesPerDay
    IN  minuteOfDay \div 60

GetTimeBucket(slot, tz) ==
    LET hour == LocalHour(slot, tz)
    IN  IF hour < 12 THEN "morning"
        ELSE IF hour < 17 THEN "afternoon"
        ELSE "evening"

----------------------------------------------------------------------------
(* Array.prototype.sort is stable: elements that compare equal keep their  *)
(* order.  Each sort below places element i at its rank.                   *)

\* mutant: the list is returned unsorted
SortChronoNone(xs) == xs

\* [...xs].sort((a, b) => new Date(a.start_at) - new Date(b.start_at))
SortChrono(xs) ==
    LET n == Len(xs)
        key(i) == ParseDate(xs[i].start_at)
        rank(i) == 1 + Cardinality({j \in 1..n :
                        key(j) < key(i) \/ (key(j) = key(i) /\ j < i)})
    IN  Array([k \in 1..n |-> xs[CHOOSE i \in 1..n : rank(i) = k]], n)

\* mutant: the lowest score comes first
SortByScoreAscending(xs) ==
    LET n == Len(xs)
        rank(i) == 1 + Cardinality({j \in 1..n :
                        ScoreLess(xs[j].score, xs[i].score)
                        \/ (xs[j].score = xs[i].score /\ j < i)})
    IN  Array([k \in 1..n |-> xs[CHOOSE i \in 1..n : rank(i) = k]], n)

\* mutant: elements of equal score swap their order
SortByScoreReverseTies(xs) ==
    LET n == Len(xs)
        rank(i) == 1 + Cardinality({j \in 1..n :
                        ScoreLess(xs[i].score, xs[j].score)
                        \/ (xs[j].score = xs[i].score /\ j > i)})
    IN  Array([k \in 1..n |-> xs[CHOOSE i \in 1..n : rank(i) = k]], n)

\* scoredSlots.sort((a, b) => b.score - a.score)
SortByScore(xs) ==
    LET n == Len(xs)
        rank(i) == 1 + Cardinality({j \in 1..n :
                        ScoreLess(xs[i].score, xs[j].score)
                        \/ (xs[j].score = xs[i].score /\ j < i)})
    IN  Array([k \in 1..n |-> xs[CHOOSE i \in 1..n : rank(i) = k]], n)

----------------------------------------------------------------------------
(* detectGaps *)

\* mutant: the threshold is the increment itself, not 1.5 times it
DetectGapsTight(xs, tz, incrementMinutes) ==
    IF Len(xs) < 2 THEN <<>>
    ELSE
      LET sorted == SortChrono(xs)
          current(i) == ParseDate(sorted[i].start_at)
          next(i) == ParseDate(sorted[i + 1].start_at)
          isGap(i) == next(i) - current(i) >= incrementMinutes
          idx == {i \in 1..(Len(sorted) - 1) : isGap(i)}
          nth(k) == CHOOSE i \in idx : Cardinality({j \in idx : j < i}) = k - 1
      IN  Array([k \in 1..Cardinality(idx) |->
              [start |-> current(nth(k)), end |-> next(nth(k))]], Cardinality(idx))

\* mutant: a difference of exactly 1.5 times the increment is a gap (>=)
DetectGapsInclusive(xs, tz, incrementMinutes) ==
    IF Len(xs) < 2 THEN <<>>
    ELSE
      LET sorted == SortChrono(xs)
          current(i) == ParseDate(sorted[i].start_at)
          next(i) == ParseDate(sorted[i + 1].start_at)
          isGap(i) == 2 * (next(i) - current(i)) >= 3 * incrementMinutes
          idx == {i \in 1..(Len(sorted) - 1) : isGap(i)}
          nth(k) == CHOOSE i \in idx : Cardinality({j \in idx : j < i}) = k - 1
      IN  Array([k \in 1..Cardinality(idx) |->
              [start |-> current(nth(k)), end |-> next(nth(k))]], Cardinality(idx))

\* mutant: the slots are compared in the order given
DetectGapsUnsorted(xs, tz, incrementMinutes) ==
    IF Len(xs) < 2 THEN <<>>
    ELSE
      LET current(i) == ParseDate(xs[i].start_at)
          next(i) == ParseDate(xs[i + 1].start_at)
          isGap(i) == 2 * (next(i) - current(i)) > 3 * incrementMinutes
          idx == {i \in 1..(Len(xs) - 1) : isGap(i)}
          nth(k) == CHOOSE i \in idx : Cardinality({j \in idx : j < i}) = k - 1
      IN  Array([k \in 1..Cardinality(idx) |->
              [start |-> current(nth(k)), end |-> next(nth(k))]], Cardinality(idx))

\* two gaps that share an endpoint become one
RECURSIVE MergeAdjacent(_)
MergeAdjacent(gs) ==
    IF Len(gs) < 2 THEN gs
    ELSE IF gs[1].end = gs[2].start
         THEN MergeAdjacent(<<[start |-> gs[1].start, end |-> gs[2].end]>>
                                \o SubSeq(gs, 3, Len(gs)))
         ELSE <<gs[1]>> \o MergeAdjacent(Tail(gs))

\* mutant: adjacent gaps are merged
DetectGapsMerged(xs, tz, incrementMinutes) ==
    IF Len(xs) < 2 THEN <<>>
    ELSE
      LET sorted == SortChrono(xs)
          current(i) == ParseDate(sorted[i].start_at)
          next(i) == ParseDate(sorted[i + 1].start_at)
          isGap(i) == 2 * (next(i) - current(i)) > 3 * incrementMinutes
          idx == {i \in 1..(Len(sorted) - 1) : isGap(i)}
          nth(k) == CHOOSE i \in idx : Cardinality({j \in idx : j < i}) = k - 1
      IN  MergeAdjacent(Array([k \in 1..Cardinality(idx) |->
              [start |-> current(nth(k)), end |-> next(nth(k))]], Cardinality(idx)))

DetectGaps(xs, tz, incrementMinutes) ==
    IF Len(xs) < 2 THEN <<>>
    ELSE
      LET sorted == SortChrono(xs)
          current(i) == ParseDate(sorted[i].start_at)
          next(i) == ParseDate(sorted[i + 1].start_at)
          \* diff > incrementMinutes * 1.5
          isGap(i) == 2 * (next(i) - current(i)) > 3 * incrementMinutes
          idx == {i \in 1..(Len(sorted) - 1) : isGap(i)}
          nth(k) == CHOOSE i \in idx : Cardinality({j \in idx : j < i}) = k - 1
      IN  Array([k \in 1..Cardinality(idx) |->
              [start |-> current(nth(k)), end |-> next(nth(k))]], Cardinality(idx))

----------------------------------------------------------------------------
(* scoreSlotByProximity *)

MinOfSet(S) == CHOOSE x \in S : \A y \in S : x <= y

\* mutant: only the distance to the start of each gap is measured
ScoreSlotByGapStart(slot, gs) ==
    IF Len(gs) = 0 THEN Frac(1, 2)
    ELSE
      LET slotTime == ParseDate(slot.start_at)
          minDistance == MinOfSet(
              {Abs(slotTime - gs[i].start) : i \in 1..Len(gs)})
      IN  Frac(DecayMinutes, DecayMinutes + minDistance)

\* mutant: only the first gap is measured
ScoreSlotByFirstGap(slot, gs) ==
    IF Len(gs) = 0 THEN Frac(1, 2)
    ELSE
      LET slotTime == ParseDate(slot.start_at)
          minDistance == MinOfSet(
              {Abs(slotTime - gs[1].start), Abs(slotTime - gs[1].end)})
      IN  Frac(DecayMinutes, DecayMinutes + minDistance)

\* mutant: the score falls linearly and reaches 0 one hour away
ScoreSlotLinear(slot, gs) ==
    IF Len(gs) = 0 THEN Frac(1, 2)
    ELSE
      LET slotTime == ParseDate(slot.start_at)
          minDistance == MinOfSet(
              {Abs(slotTime - gs[i].start) : i \in 1..Len(gs)}
              \cup {Abs(slotTime - gs[i].end) : i \in 1..Len(gs)})
      IN  IF minDistance >= 2 * DecayMinutes THEN Frac(0, 1)
          ELSE Frac(2 * DecayMinutes - minDistance, 2 * DecayMinutes)

ScoreSlotByProximity(slot, gs) ==
    IF Len(gs) = 0 THEN Frac(1, 2)
    ELSE
      LET slotTime == ParseDate(slot.start_at)
          minDistance == MinOfSet(
              {Abs(slotTime - gs[i].start) : i \in 1..Len(gs)}
              \cup {Abs(slotTime - gs[i].end) : i \in 1..Len(gs)})
      IN  \* 1 / (1 + minutesAway / 30)
          Frac(DecayMinutes, DecayMinutes + minDistance)

----------------------------------------------------------------------------
(* selectSmartSlots *)

\* mutant: only a slot repeating its immediate predecessor is dropped
DedupAdjacent(xs) ==
    LET keep(i) == i = 1 \/ xs[i - 1].start_at # xs[i].start_at
        idx == {i \in 1..Len(xs) : keep(i)}
        nth(k) == CHOOSE i \in idx : Cardinality({j \in idx : j < i}) = k - 1
    IN  Array([k \in 1..Cardinality(idx) |-> xs[nth(k)]], Cardinality(idx))

\* mutant: the last slot of each start_at is kept, at the place of the first
DedupLastWins(xs) ==
    LET keep(i) == \A j \in 1..(i - 1) : xs[j].start_at # xs[i].start_at
        idx == {i \in 1..Len(xs) : keep(i)}
        nth(k) == CHOOSE i \in idx : Cardinality({j \in idx : j < i}) = k - 1
        last(i) == CHOOSE j \in i..Len(xs) :
                      /\ xs[j].start_at = xs[i].start_at
                      /\ \A m \in (j + 1)..Len(xs) : xs[m].start_at # xs[i].start_at
    IN  Array([k \in 1..Cardinality(idx) |-> xs[last(nth(k))]], Cardinality(idx))

\* slots.filter(first occurrence of each start_at string)
Dedup(xs) ==
    LET keep(i) == \A j \in 1..(i - 1) : xs[j].start_at # xs[i].start_at
        idx == {i \in 1..Len(xs) : keep(i)}
        nth(k) == CHOOSE i \in idx : Cardinality({j \in idx : j < i}) = k - 1
    IN  Array([k \in 1..Cardinality(idx) |-> xs[nth(k)]], Cardinality(idx))

ScoreAll(xs, gs, tz) ==
    Array([i \in 1..Len(xs) |->
            [slot |-> xs[i],
             score |-> ScoreSlotByProximity(xs[i], gs),
             bucket |-> GetTimeBucket(xs[i], tz)]], Len(xs))

\* mutant: the half is rounded down
TopHalfFloor(sorted) == SubSeq(sorted, 1, Len(sorted) \div 2)

\* scoredSlots.slice(0, Math.ceil(scoredSlots.length / 2))
TopHalf(sorted) == SubSeq(sorted, 1, (Len(sorted) + 1) \div 2)

\* Object.entries(bucketCounts).sort((a, b) => b[1] - a[1])[0][0]
MajorityBucket(sorted) ==
    LET top == TopHalf(sorted)
        count(b) == Cardinality({i \in 1..Len(top) : top[i].bucket = Buckets[b]})
        first == CHOOSE b \in 1..Len(Buckets) :
                    \A c \in 1..Len(Buckets) :
                        count(c) < count(b) \/ (count(c) = count(b) /\ b <= c)
    IN  Buckets[first]

\* mutant: the last slot outside the majority bucket is taken
FindDiversityLast(sorted, majority) ==
    LET idx == {i \in 1..Len(sorted) : sorted[i].bucket # majority}
    IN  IF idx = {} THEN <<>>
        ELSE <<sorted[CHOOSE i \in idx : \A j \in idx : i >= j]>>

\* scoredSlots.find((s) => s.bucket !== majorityBucket), <<>> for undefined
FindDiversity(sorted, majority) ==
    LET idx == {i \in 1..Len(sorted) : sorted[i].bucket # majority}
    IN  IF idx = {} THEN <<>>
        ELSE <<sorted[CHOOSE i \in idx : \A j \in idx : i <= j]>>

\* mutant: the diversity slot is not pushed
ReserveNone(diversity) == <<>>

\* selected = []; if (diversitySlot) selected.push(diversitySlot)
Reserve(diversity) == diversity

\* mutant: the loop stops one slot late (> instead of >=)
RECURSIVE FillOneMore(_, _, _, _)
FillOneMore(selected, rest, diversity, max) ==
    IF rest = <<>> THEN selected
    ELSE IF Len(selected) > max THEN selected
    ELSE IF diversity # <<>>
            /\ Head(rest).slot.start_at = diversity[1].slot.start_at
         THEN FillOneMore(selected, Tail(rest), diversity, max)
    ELSE FillOneMore(Append(selected, Head(rest)), Tail(rest), diversity, max)

\* for (const s of scoredSlots) { break / continue / push }
RECURSIVE Fill(_, _, _, _)
Fill(selected, rest, diversity, max) ==
    IF rest = <<>> THEN selected
    ELSE IF Len(selected) >= max THEN selected
    ELSE IF diversity # <<>>
            /\ Head(rest).slot.start_at = diversity[1].slot.start_at
         THEN Fill(selected, Tail(rest), diversity, max)
    ELSE Fill(Append(selected, Head(rest)), Tail(rest), diversity, max)

SlotsOf(sel) == Array([i \in 1..Len(sel) |-> sel[i].slot], Len(sel))

\* the locals of one call of selectSmartSlots
SelectRun(xs, tz, max) ==
    LET unique == Dedup(xs)
    IN  IF Len(unique) <= max
        THEN [unique |-> unique, gaps |-> <<>>, scored |-> <<>>,
              majority |-> "none", diversity |-> <<>>,
              result |-> SortChrono(unique)]
        ELSE
          LET gs == DetectGaps(unique, tz, DefaultIncrement)
              sorted == SortByScore(ScoreAll(unique, gs, tz))
              majority == MajorityBucket(sorted)
              diversity == FindDiversity(sorted, majority)
              selected == Fill(Reserve(diversity), sorted, diversity, max)
          IN  [unique |-> unique, gaps |-> gs, scored |-> sorted,
               majority |-> majority, diversity |-> diversity,
               result |-> SortChrono(SlotsOf(selected))]

SelectSmartSlots(xs, tz, max) == SelectRun(xs, tz, max).result

----------------------------------------------------------------------------
(* The arrays a call touches.  A heap is the sequence of the TimeSlot      *)
(* arrays alive during the call and a reference is an index into it; the   *)
(* caller's list is array 1.  sort works in place on the array it is       *)
(* called on; the spread, filter and map build a new array.                *)

\* slots.filter(...) or selected.map(...): a new array holding xs
NewArray(heap, xs) == [heap |-> Append(heap, xs), ref |-> Len(heap) + 1]

\* mutant: no copy is taken, the array itself is handed on
SpreadAlias(heap, ref) == [heap |-> heap, ref |-> ref]

\* [...xs]: a new array with the elements of array ref
SpreadCopy(heap, ref) == [heap |-> Append(heap, heap[ref]), ref |-> Len(heap) + 1]

\* xs.sort(by start): array ref is reordered in place
SortInPlace(heap, ref) == [heap EXCEPT ![ref] = SortChrono(heap[ref])]

\* the heap after detectGaps ran on array ref
DetectGapsHeap(heap, ref) ==
    IF Len(heap[ref]) < 2 THEN heap
    ELSE LET sorted == SpreadCopy(heap, ref)
         IN  SortInPlace(sorted.heap, sorted.ref)

\* the heap after selectSmartSlots ran on the caller's list xs and picked
\* the slots of selected
SelectHeap(xs, max, selected) ==
    LET unique == NewArray(<<xs>>, Dedup(xs))
    IN  IF Len(unique.heap[unique.ref]) <= max
        THEN LET copy == SpreadCopy(unique.heap, unique.ref)
             IN  SortInPlace(copy.heap, copy.ref)
        ELSE LET afterGaps == DetectGapsHeap(unique.heap, unique.ref)
                 picked == NewArray(afterGaps, selected)
             IN  SortInPlace(picked.heap, picked.ref)

----------------------------------------------------------------------------
(* Requests, replies and errors of the providers.  A reply is what fetch   *)
(* resolves to: ok and status, whether the body parses as JSON (json), and *)
(* the parsed body.  An error is the message of the thrown Error and the   *)
(* status it quotes (0 when it quotes none).                               *)

Request(endpoint, params, header) ==
    [endpoint |-> endpoint, params |-> params, header |-> header]

NoError == [message |-> "", status |-> 0]

Failure(message, status) == [message |-> message, status |-> status]

----------------------------------------------------------------------------
(* calcomProvider.fetchSlots *)

\* mutant: only the username is required
CalcomConfigMissingUser(cfg) == cfg.calcomUsername = ""

\* !calcomUsername || !calcomEventSlug
CalcomConfigMissing(cfg) ==
    cfg.calcomUsername = "" \/ cfg.calcomEventSlug = ""

CalcomEventTypeRequest(cfg) ==
    Request("/v2/event-types",
            <<cfg.calcomUsername, cfg.calcomEventSlug>>, "2024-06-14")

CalcomSlotsRequest(cfg) ==
    Request("/v2/slots",
            <<cfg.calcomEventSlug, cfg.calcomUsername>>, "2024-09-04")

\* eventType after an ok event-types reply: data[0] of a body that parses
\* and lists an event type, else null
CalcomEventType(reply) ==
    IF reply.json /\ reply.data # <<>> THEN Some(reply.data[1]) ELSE None

\* mutant: the event type's length is ignored
CalcomDefaultDurationFixed(et) == FallbackDuration

\* eventType?.lengthInMinutes || 30 (a lengthInMinutes of 0 stands for 0 or
\* a missing field, both falsy)
CalcomDefaultDuration(et) ==
    IF et # None /\ et[1].lengthInMinutes # 0
    THEN et[1].lengthInMinutes
    ELSE FallbackDuration

\* the slots of Object.keys(data.data) in key order, each day's in its order
RECURSIVE Flatten(_)
Flatten(days) ==
    IF days = <<>> THEN <<>> ELSE Head(days) \o Flatten(Tail(days))

\* start_at is the reply's string, end_at is written by toISOString
CalcomSlots(days, duration) ==
    LET starts == Flatten(days)
    IN  Array([i \in 1..Len(starts) |->
                [start_at |-> starts[i],
                 end_at |-> ToISOString(ParseDate(starts[i]) + duration)]],
              Len(starts))

CalcomDurations(et, duration) ==
    IF et # None
       /\ et[1].lengthInMinutesOptions # None
       /\ Len(et[1].lengthInMinutesOptions[1]) > 0
    THEN et[1].lengthInMinutesOptions[1]
    ELSE <<duration>>

CalcomLinkInfo(cfg, et) ==
    [id |-> IF et # None THEN ToString(et[1].id)
            ELSE cfg.calcomUsername \o "/" \o cfg.calcomEventSlug,
     slug |-> cfg.calcomEventSlug,
     durations |-> CalcomDurations(et, CalcomDefaultDuration(et)),
     defaultDuration |-> CalcomDefaultDuration(et)]

\* { slots, linkInfo }
CalcomResult(cfg, et, reply) ==
    [slots |-> CalcomSlots(reply.data, CalcomDefaultDuration(et)),
     linkInfo |-> CalcomLinkInfo(cfg, et)]

----------------------------------------------------------------------------
(* savvycalProvider.fetchSlots and fetchLinkInfo.  The body of a reply is  *)
(* one list under the key named by shape ("entries", "data"), a bare array *)
(* ("array") or an object with neither key ("object").                     *)

\* !savvycalToken || !savvycalLink
SavvycalConfigMissing(cfg) ==
    cfg.savvycalToken = "" \/ cfg.savvycalLink = ""

SavvycalLinksRequest(cfg) == Request("/v1/links", <<>>, cfg.savvycalToken)

SavvycalSlotsRequest(cfg, info) ==
    Request("/v1/links/{id}/slots", <<info.id>>, cfg.savvycalToken)

\* Array.isArray(data.entries || data.data || data): the list under the key
\* entries or data is an array; an object with neither key is none, and a
\* bare array is none either, its entries being the method
\* Array.prototype.entries
LinksIsArray(reply) == reply.shape \in {"entries", "data"}

\* mutant: the first link is taken whatever its slug
FindLinkFirst(reply, slug) ==
    IF ~LinksIsArray(reply) \/ reply.links = <<>> THEN None
    ELSE Some(reply.links[1])

\* Array.isArray(links) ? links.find((l) => l.slug === slug) : null
FindLink(reply, slug) ==
    LET idx == {i \in 1..Len(reply.links) : reply.links[i].slug = slug}
    IN  IF ~LinksIsArray(reply) \/ idx = {} THEN None
        ELSE Some(reply.links[CHOOSE i \in idx : \A j \in idx : i <= j])

\* the LinkInfo fetchLinkInfo returns for the matched link (a
\* default_duration of 0 stands for 0 or a missing field)
LinkInfoOf(link) ==
    [id |-> link.id,
     slug |-> link.slug,
     durations |-> IF link.durations # None THEN link.durations[1]
                   ELSE <<FallbackDuration>>,
     defaultDuration |-> IF link.default_duration # 0
                         THEN link.default_duration
                         ELSE FallbackDuration]

\* rawSlots.filter((s) => s.start_at && s.end_at).map(...)
SavvycalSlots(reply) ==
    LET raw == IF reply.shape = "object" THEN <<>> ELSE reply.slots
        idx == {i \in 1..Len(raw) :
                    raw[i].start_at # None /\ raw[i].end_at # None}
        nth(k) == CHOOSE i \in idx : Cardinality({j \in idx : j < i}) = k - 1
    IN  Array([k \in 1..Cardinality(idx) |->
                [start_at |-> raw[nth(k)].start_at[1],
                 end_at |-> raw[nth(k)].end_at[1]]], Cardinality(idx))

----------------------------------------------------------------------------
(* generateMessage: the days of the message and the slots shown for each *)

\* format(utcToZonedTime(slotDate, timezone), "yyyy-MM-dd"), as the number
\* of the local day counted from 2026-01-07
DayKey(slot, tz) == (ParseDate(slot.start_at) + ZoneOffset(tz)) \div MinutesPerDay

\* groupSlotsByDay(slots, timezone).get(day)
SlotsOfDay(xs, tz, day) ==
    LET idx == {i \in 1..Len(xs) : DayKey(xs[i], tz) = day}
        nth(k) == CHOOSE i \in idx : Cardinality({j \in idx : j < i}) = k - 1
    IN  Array([k \in 1..Cardinality(idx) |-> xs[nth(k)]], Cardinality(idx))

\* Array.from(groupedSlots.keys()).sort()
SortedDays(xs, tz) ==
    LET days == {DayKey(xs[i], tz) : i \in 1..Len(xs)}
        nth(k) == CHOOSE d \in days : Cardinality({e \in days : e < d}) = k - 1
    IN  Array([k \in 1..Cardinality(days) |-> nth(k)], Cardinality(days))

\* [...daySlots].sort(by start).slice(0, 4)
DisplaySlots(daySlots) ==
    LET sortedSlots == SortChrono(daySlots)
    IN  SubSeq(sortedSlots, 1, Min(SlotsPerDay, Len(sortedSlots)))

\* formatInTimeZone(new Date(slot.start_at), timezone, "h:mma"): the local
\* hour on the 12-hour clock, the minute and am / pm
FormatSlotTime(slot, tz) ==
    LET shifted == ParseDate(slot.start_at) + ZoneOffset(tz)
        wrapped == shifted % MinutesPerDay
        minuteOfDay == (wrapped + MinutesPerDay) % MinutesPerDay
        hour == minuteOfDay \div 60
        hour12 == IF hour % 12 = 0 THEN 12 ELSE hour % 12
    IN  [h |-> hour12, mm |-> minuteOfDay % 60,
         a |-> IF hour < 12 THEN "am" ELSE "pm"]

\* one entry per day line of the message
GenerateMessage(xs, tz) ==
    LET sortedDays == SortedDays(xs, tz)
        line(k) ==
            LET displaySlots == DisplaySlots(SlotsOfDay(xs, tz, sortedDays[k]))
            IN  [day |-> sortedDays[k],
                 daySlots |-> SlotsOfDay(xs, tz, sortedDays[k]),
                 displaySlots |-> displaySlots,
                 times |-> Array([i \in 1..Len(displaySlots) |->
                                    FormatSlotTime(displaySlots[i], tz)],
                                 Len(displaySlots))]
    IN  Array([k \in 1..Len(sortedDays) |-> line(k)], Len(sortedDays))

----------------------------------------------------------------------------
(* Inputs *)

RECURSIVE SeqsOfLen(_, _)
SeqsOfLen(S, n) ==
    IF n = 0 THEN {<<>>}
    ELSE {Append(s, x) : s \in SeqsOfLen(S, n - 1), x \in S}

\* 11:30, 12:00, 13:00
SmallTimes == {690, 720, 780}

\* each instant in both spellings, and with a second duration
SmallSlots ==
    {MkSlot(t, 0, 30) : t \in SmallTimes}
    \cup {MkSlot(t, 1, 30) : t \in SmallTimes}
    \cup {MkSlot(t, 0, 60) : t \in SmallTimes}

SmallLists == UNION {SeqsOfLen(SmallSlots, n) : n \in 0..MaxLen}

\* 09:00 .. 12:00 and 14:00 .. 16:00 in half-hour steps
DayTimes == {540, 570, 600, 630, 660, 690, 720, 840, 870, 900, 930, 960}

\* a day's availability as a provider returns it, in chronological order
DayLists ==
    {SortChrono(s) : s \in
        {[k \in 1..Cardinality(S) |->
            MkSlot(CHOOSE t \in S : Cardinality({u \in S : u < t}) = k - 1, 0, 30)]
         : S \in SUBSET DayTimes}}

\* 09:00, 09:30, 10:00: no gap between them, in any order and repeated
TieTimes == {540, 570, 600}

TieLists == UNION {SeqsOfLen({MkSlot(t, 0, 30) : t \in TieTimes}, n) : n \in 0..MaxLen}

\* one slot at every half hour of the day
HourSlots == {MkSlot(30 * k, 0, 30) : k \in 0..47}

\* 11:00, 12:00, 12:45, 13:00: steps of 15, 45, 60, 105 and 120 minutes
GapTimes == {660, 720, 765, 780}

GapLists ==
    UNION {SeqsOfLen({MkSlot(t, e, 30) : t \in GapTimes, e \in 0..1}, n) :
            n \in 0..MaxLen}

\* values of the incrementMinutes argument
Increments == {10, 30, 60}

\* the slot handed to scoreSlotByProximity
ScoreSlots == {MkSlot(t, 0, 30) : t \in {540, 570, 600, 630, 660, 720, 840, 900}}

\* a gap between two of 10:00, 11:00, 14:00, 14:30
GapValues ==
    {[start |-> a, end |-> b] : a \in {600, 660, 840}, b \in {660, 840, 870}}
        \ {g \in [start : {660, 840}, end : {660, 840}] : g.start >= g.end}

GapInputs == UNION {SeqsOfLen(GapValues, n) : n \in 0..MaxGaps}

\* the slots handed to generateMessage: a day's availability, alone or
\* followed by a slot at 10:00 of the next day, and the short lists
MessageLists ==
    {d \o e : d \in DayLists, e \in {<<>>, <<MkSlot(MinutesPerDay + 600, 0, 30)>>}}
        \cup SmallLists

NoConfig ==
    [calcomUsername |-> "", calcomEventSlug |-> "",
     savvycalToken |-> "", savvycalLink |-> ""]

\* a missing field of the config reads as the empty string (both falsy)
CalcomConfigs ==
    {[NoConfig EXCEPT !.calcomUsername = u, !.calcomEventSlug = e] :
        u \in {"", "testuser"}, e \in {"", "meeting"}}

SavvycalConfigs ==
    {[NoConfig EXCEPT !.savvycalToken = t, !.savvycalLink = l] :
        t \in {"", "test-token"}, l \in {"", "chat"}}

\* statuses of the replies that are not ok
ErrorStatuses == {404, 500}

EventTypes ==
    {[id |-> 123, lengthInMinutes |-> len, lengthInMinutesOptions |-> opts] :
        len \in {0, 45}, opts \in {None, Some(<<>>), Some(<<25, 45>>)}}

\* replies to the event-types request: a body listing event types, a body
\* that is not JSON, an error status
CalcomEventTypeReplies ==
    {[ok |-> TRUE, status |-> 200, json |-> TRUE, data |-> d] :
        d \in UNION {SeqsOfLen(EventTypes, n) : n \in 0..MaxEntries}}
    \cup {[ok |-> TRUE, status |-> 200, json |-> FALSE, data |-> <<>>]}
    \cup {[ok |-> FALSE, status |-> st, json |-> TRUE, data |-> <<>>] :
            st \in ErrorStatuses}

\* what provider.fetchSlots does for handleSubmit: it returns slots (none,
\* one, two on two days) or throws an Error with a message, or
\* throws a value that is no Error
NoFetch == [throws |-> FALSE, isError |-> FALSE, message |-> "", slots |-> <<>>]

FetchResults ==
    {[NoFetch EXCEPT !.slots = xs] :
        xs \in {<<>>,
                <<MkSlot(600, 0, 30)>>,
                <<MkSlot(600, 0, 30), MkSlot(MinutesPerDay + 600, 0, 30)>>}}
    \cup {[NoFetch EXCEPT !.throws = TRUE, !.isError = TRUE, !.message = m] :
            m \in {"Cal.com API error", "Invalid JSON from SavvyCal slots"}}
    \cup {[NoFetch EXCEPT !.throws = TRUE]}

\* 10:00 on 2026-01-07 written without milliseconds, 10:00 on 2026-01-08
\* written with them
ReplyStarts == {IsoString(600, 0), IsoString(MinutesPerDay + 600, 1)}

CalcomDays == UNION {SeqsOfLen(ReplyStarts, n) : n \in 0..MaxReplySlots}

\* replies to the Cal.com slots request: data lists the days in key order
CalcomSlotsReplies ==
    {[ok |-> TRUE, status |-> 200, json |-> TRUE, data |-> d] :
        d \in UNION {SeqsOfLen(CalcomDays, n) : n \in 0..MaxDays}}
    \cup {[ok |-> TRUE, status |-> 200, json |-> FALSE, data |-> <<>>]}
    \cup {[ok |-> FALSE, status |-> st, json |-> TRUE, data |-> <<>>] :
            st \in ErrorStatuses}

\* link_1 names its durations, link_2 names none
Links ==
    {[id |-> "link_1", slug |-> sl, durations |-> Some(<<15, 30>>),
      default_duration |-> 15] : sl \in {"chat", "intro"}}
    \cup {[id |-> "link_2", slug |-> sl, durations |-> None,
            default_duration |-> 0] : sl \in {"chat", "intro"}}

Shapes == {"entries", "data", "array", "object"}

SavvycalLinksReplies ==
    {[ok |-> TRUE, status |-> 200, json |-> TRUE, shape |-> sh, links |-> ls] :
        sh \in Shapes \ {"object"},
        ls \in UNION {SeqsOfLen(Links, n) : n \in 0..MaxEntries}}
    \cup {[ok |-> TRUE, status |-> 200, json |-> j, shape |-> "object",
            links |-> <<>>] : j \in BOOLEAN}
    \cup {[ok |-> FALSE, status |-> st, json |-> TRUE, shape |-> "object",
            links |-> <<>>] : st \in ErrorStatuses}

\* a well-formed slot, one without start_at, one without end_at
RawSlots ==
    {[start_at |-> Some(IsoString(600, 0)), end_at |-> Some(IsoString(630, 0))],
     [start_at |-> None, end_at |-> Some(IsoString(690, 0))],
     [start_at |-> Some(IsoString(720, 1)), end_at |-> None]}

SavvycalSlotsReplies ==
    {[ok |-> TRUE, status |-> 200, json |-> TRUE, shape |-> sh, slots |-> raw] :
        sh \in Shapes \ {"object"},
        raw \in UNION {SeqsOfLen(RawSlots, n) : n \in 0..MaxReplySlots}}
    \cup {[ok |-> TRUE, status |-> 200, json |-> j, shape |-> "object",
            slots |-> <<>>] : j \in BOOLEAN}
    \cup {[ok |-> FALSE, status |-> st, json |-> TRUE, shape |-> "object",
            slots |-> <<>>] : st \in ErrorStatuses}

----------------------------------------------------------------------------
(* State machine: one call of an exported function per behaviour *)

NoOutputs ==
    /\ result = <<>>
    /\ uniqueSlots = <<>>
    /\ gaps = <<>>
    /\ scoredSlots = <<>>
    /\ majorityBucket = "none"
    /\ diversitySlot = <<>>
    /\ bucketOut = "none"
    /\ scoreOut = Frac(0, 1)
    /\ requests = <<>>
    /\ eventType = None
    /\ linkInfo = None
    /\ fetched = None
    /\ error = NoError
    /\ lines = <<>>
    /\ isLoading = FALSE
    /\ toast = None
    /\ clipboard = None
    /\ hud = None

InitSelect ==
    /\ op = "select"
    /\ slots \in SmallLists \cup DayLists \cup TieLists
    /\ timezone \in Timezones
    /\ maxSlots \in 0..MaxMaxSlots
    /\ increment = DefaultIncrement
    /\ gapsIn = <<>>

InitBucket ==
    /\ op = "bucket"
    /\ slots \in {<<s>> : s \in HourSlots}
    /\ timezone \in Timezones
    /\ maxSlots = DefaultMaxSlots
    /\ increment = DefaultIncrement
    /\ gapsIn = <<>>

InitGaps ==
    /\ op = "gaps"
    /\ slots \in GapLists \cup DayLists
    /\ timezone = "UTC"
    /\ maxSlots = DefaultMaxSlots
    /\ increment \in Increments
    /\ gapsIn = <<>>

InitScore ==
    /\ op = "score"
    /\ slots \in {<<s>> : s \in ScoreSlots}
    /\ timezone = "UTC"
    /\ maxSlots = DefaultMaxSlots
    /\ increment = DefaultIncrement
    /\ gapsIn \in GapInputs

InitMessage ==
    /\ op = "message"
    /\ slots \in MessageLists
    /\ timezone \in Timezones
    /\ maxSlots = DefaultMaxSlots
    /\ increment = DefaultIncrement
    /\ gapsIn = <<>>

\* no slot list is handed to a provider
NoSlots ==
    /\ slots = <<>>
    /\ timezone = "UTC"
    /\ maxSlots = DefaultMaxSlots
    /\ increment = DefaultIncrement
    /\ gapsIn = <<>>

\* no provider is called
NoProvider ==
    /\ config = NoConfig
    /\ replies = <<>>

InitCalcom ==
    /\ op = "calcom"
    /\ config \in CalcomConfigs
    /\ replies \in CalcomEventTypeReplies \X CalcomSlotsReplies

InitSavvycal ==
    /\ op = "savvycal"
    /\ config \in SavvycalConfigs
    /\ replies \in SavvycalLinksReplies \X SavvycalSlotsReplies

\* the command is not submitted
NoSubmit ==
    /\ startDate = None
    /\ endDate = None
    /\ fetchResult = NoFetch
    /\ copyFails = FALSE

\* the form when the user submits it, and how the awaited calls will end
InitSubmit ==
    /\ op = "submit"
    /\ slots = <<>>
    /\ timezone \in Timezones
    /\ maxSlots = DefaultMaxSlots
    /\ increment = DefaultIncrement
    /\ gapsIn = <<>>
    /\ startDate \in {None, Some(0)}
    /\ endDate \in {None, Some(DefaultDaysAhead)}
    /\ fetchResult \in FetchResults
    /\ copyFails \in BOOLEAN

Init ==
    /\ pc = "ready"
    /\ NoOutputs
    /\ \/ NoSubmit /\ NoProvider
              /\ (InitSelect \/ InitBucket \/ InitGaps \/ InitScore \/ InitMessage)
       \/ NoSubmit /\ NoSlots /\ (InitCalcom \/ InitSavvycal)
       \/ NoProvider /\ InitSubmit

CallSelectSmartSlots ==
    /\ pc = "ready"
    /\ op = "select"
    /\ \E run \in {SelectRun(slots, timezone, maxSlots)} :
           /\ result' = run.result
           /\ uniqueSlots' = run.unique
           /\ gaps' = run.gaps
           /\ scoredSlots' = run.scored
           /\ majorityBucket' = run.majority
           /\ diversitySlot' = run.diversity
           /\ slots' = SelectHeap(slots, maxSlots, run.result)[1]
    /\ pc' = "done"
    /\ UNCHANGED <<callVars, bucketOut, scoreOut, provVars, lines, submitVars>>

CallGetTimeBucket ==
    /\ pc = "ready"
    /\ op = "bucket"
    /\ bucketOut' = GetTimeBucket(slots[1], timezone)
    /\ pc' = "done"
    /\ UNCHANGED <<argVars, selectVars, gaps, scoreOut, provVars, lines,
                   submitVars>>

CallDetectGaps ==
    /\ pc = "ready"
    /\ op = "gaps"
    /\ gaps' = DetectGaps(slots, timezone, increment)
    /\ slots' = DetectGapsHeap(<<slots>>, 1)[1]
    /\ pc' = "done"
    /\ UNCHANGED <<callVars, selectVars, bucketOut, scoreOut, provVars, lines,
                   submitVars>>

CallScoreSlotByProximity ==
    /\ pc = "ready"
    /\ op = "score"
    /\ scoreOut' = ScoreSlotByProximity(slots[1], gapsIn)
    /\ pc' = "done"
    /\ UNCHANGED <<argVars, selectVars, gaps, bucketOut, provVars, lines,
                   submitVars>>

CallGenerateMessage ==
    /\ pc = "ready"
    /\ op = "message"
    /\ lines' = GenerateMessage(slots, timezone)
    /\ pc' = "done"
    /\ UNCHANGED <<argVars, selectVars, gaps, bucketOut, scoreOut, provVars,
                   submitVars>>

\* the call ends by throwing
Reject(message, status) ==
    /\ error' = Failure(message, status)
    /\ pc' = "rejected"

notProvVars == <<argVars, selectVars, gaps, bucketOut, scoreOut, lines,
                 submitVars>>

\* calcom.ts 43-58: the config check and the event-types request
CalcomStart ==
    /\ pc = "ready"
    /\ op = "calcom"
    /\ IF CalcomConfigMissing(config)
       THEN /\ Reject("Cal.com username and event slug are required", 0)
            /\ UNCHANGED requests
       ELSE /\ requests' = Append(requests, CalcomEventTypeRequest(config))
            /\ pc' = "awaitEventType"
            /\ UNCHANGED error
    /\ UNCHANGED <<config, replies, eventType, linkInfo, fetched, notProvVars>>

\* calcom.ts 53-64, 77-82: the event-types request settles; a reply that
\* is not ok throws, an ok one has its body read
CalcomEventTypeReply ==
    /\ pc = "awaitEventType"
    /\ op = "calcom"
    /\ IF replies[1].ok
       THEN /\ pc' = "readEventType"
            /\ UNCHANGED error
       ELSE Reject("Could not fetch Cal.com event type details",
                   replies[1].status)
    /\ UNCHANGED <<config, replies, requests, eventType, linkInfo, fetched,
                   notProvVars>>

\* calcom.ts 63-97: the body of the event-types reply is read, the event
\* type is taken from it and the slots request is sent
CalcomEventTypeBody ==
    /\ pc = "readEventType"
    /\ op = "calcom"
    /\ eventType' = CalcomEventType(replies[1])
    /\ requests' = Append(requests, CalcomSlotsRequest(config))
    /\ pc' = "awaitSlots"
    /\ UNCHANGED <<config, replies, linkInfo, fetched, error, notProvVars>>

\* calcom.ts 92-99: the slots request settles and its body is read
CalcomSlotsReply ==
    /\ pc = "awaitSlots"
    /\ op = "calcom"
    /\ pc' = "readSlots"
    /\ UNCHANGED <<provVars, notProvVars>>

\* calcom.ts 99-155: the body of the slots reply is read; the result
CalcomSlotsBody ==
    /\ pc = "readSlots"
    /\ op = "calcom"
    /\ IF ~replies[2].ok
       THEN /\ Reject("Cal.com API error", replies[2].status)
            /\ UNCHANGED fetched
       ELSE IF ~replies[2].json
       THEN /\ Reject("Invalid JSON from Cal.com", 0)
            /\ UNCHANGED fetched
       ELSE /\ fetched' = Some(CalcomResult(config, eventType, replies[2]))
            /\ pc' = "done"
            /\ UNCHANGED error
    /\ UNCHANGED <<config, replies, requests, eventType, linkInfo, notProvVars>>

\* savvycal.ts fetchSlots: the config check; fetchLinkInfo: the request
SavvycalStart ==
    /\ pc = "ready"
    /\ op = "savvycal"
    /\ IF SavvycalConfigMissing(config)
       THEN /\ Reject("SavvyCal token and link slug are required", 0)
            /\ UNCHANGED requests
       ELSE /\ requests' = Append(requests, SavvycalLinksRequest(config))
            /\ pc' = "awaitLinks"
            /\ UNCHANGED error
    /\ UNCHANGED <<config, replies, eventType, linkInfo, fetched, notProvVars>>

\* fetchLinkInfo: the links request settles and its body is read
SavvycalLinksReply ==
    /\ pc = "awaitLinks"
    /\ op = "savvycal"
    /\ pc' = "readLinks"
    /\ UNCHANGED <<provVars, notProvVars>>

\* fetchLinkInfo after the body is read: it throws (error holds what it
\* threw) or returns the LinkInfo of the matched link
SavvycalLinksBody ==
    /\ pc = "readLinks"
    /\ op = "savvycal"
    /\ error' = IF ~replies[1].ok
                THEN Failure("SavvyCal API error fetching links",
                             replies[1].status)
                ELSE IF ~replies[1].json
                THEN Failure("Invalid JSON from SavvyCal", 0)
                ELSE IF FindLink(replies[1], config.savvycalLink) = None
                THEN Failure("No scheduling link found with slug", 0)
                ELSE error
    /\ pc' = "linkInfoSettled"
    /\ UNCHANGED <<config, replies, requests, eventType, linkInfo, fetched,
                   notProvVars>>

\* fetchSlots resumes from await fetchLinkInfo: what fetchLinkInfo threw
\* ends the call, what it returned is linkInfo and the slots request is sent
SavvycalLinkInfoSettled ==
    /\ pc = "linkInfoSettled"
    /\ op = "savvycal"
    /\ IF error # NoError
       THEN /\ pc' = "rejected"
            /\ UNCHANGED <<linkInfo, requests>>
       ELSE /\ linkInfo' =
                  Some(LinkInfoOf(FindLink(replies[1], config.savvycalLink)[1]))
            /\ requests' =
                  Append(requests, SavvycalSlotsRequest(config, linkInfo'[1]))
            /\ pc' = "awaitSlots"
    /\ UNCHANGED <<config, replies, eventType, fetched, error, notProvVars>>

\* fetchSlots: the slots request settles and its body is read
SavvycalSlotsReply ==
    /\ pc = "awaitSlots"
    /\ op = "savvycal"
    /\ pc' = "readSlots"
    /\ UNCHANGED <<provVars, notProvVars>>

\* savvycal.ts fetchSlots after the body of the slots reply is read
SavvycalSlotsBody ==
    /\ pc = "readSlots"
    /\ op = "savvycal"
    /\ IF ~replies[2].ok
       THEN /\ Reject("SavvyCal API error", replies[2].status)
            /\ UNCHANGED fetched
       ELSE IF ~replies[2].json
       THEN /\ Reject("Invalid JSON from SavvyCal slots", 0)
            /\ UNCHANGED fetched
       ELSE /\ fetched' = Some([slots |-> SavvycalSlots(replies[2]),
                                linkInfo |-> linkInfo[1]])
            /\ pc' = "done"
            /\ UNCHANGED error
    /\ UNCHANGED <<config, replies, requests, eventType, linkInfo, notProvVars>>

\* mutant: the finally block is missing
FinallySkipped(loading) == loading

\* finally { setIsLoading(false) }
Finally(loading) == FALSE

\* showToast({ style: Failure, title, message })
Toast(title, message) == Some([title |-> title, message |-> message])

\* the toast of the catch block
ErrorToast(thrown) ==
    Toast("Error", IF thrown.isError THEN thrown.message
                   ELSE "Failed to fetch availability")

notSubmitLines == <<argVars, selectVars, gaps, bucketOut, scoreOut, provVars>>

notSubmitVars == <<notSubmitLines, lines>>

\* handleSubmit up to its first await: the date check, setIsLoading(true)
\* and the call of provider.fetchSlots
SubmitStart ==
    /\ pc = "ready"
    /\ op = "submit"
    /\ IF startDate = None \/ endDate = None
       THEN /\ pc' = "done"
            /\ UNCHANGED isLoading
       ELSE /\ isLoading' = TRUE
            /\ pc' = "awaitFetch"
    /\ UNCHANGED <<toast, clipboard, hud, submitIn, notSubmitVars>>

\* fetchSlots settles: a throw goes to the catch block, no slots to the
\* failure toast, slots to generateMessage and Clipboard.copy
SubmitFetched ==
    /\ pc = "awaitFetch"
    /\ op = "submit"
    /\ IF fetchResult.throws
       THEN /\ toast' = ErrorToast(fetchResult)
            /\ pc' = "awaitErrorToast"
       ELSE IF Len(fetchResult.slots) = 0
       THEN /\ toast' = Toast("No available slots",
                              "No availability found in the selected date range")
            /\ pc' = "awaitEmptyToast"
       ELSE /\ pc' = "awaitCopy"
            /\ UNCHANGED toast
    /\ lines' = IF ~fetchResult.throws /\ Len(fetchResult.slots) # 0
                THEN GenerateMessage(fetchResult.slots, timezone)
                ELSE lines
    /\ UNCHANGED <<isLoading, clipboard, hud, submitIn, notSubmitLines>>

\* the failure toast for no slots is shown: setIsLoading(false), return,
\* and the finally block
SubmitEmptyToastShown ==
    /\ pc = "awaitEmptyToast"
    /\ op = "submit"
    /\ isLoading' = Finally(FALSE)
    /\ pc' = "done"
    /\ UNCHANGED <<toast, clipboard, hud, submitIn, notSubmitVars>>

\* Clipboard.copy settles: the clipboard holds the message and showHUD is
\* called, or the rejection goes to the catch block
SubmitCopied ==
    /\ pc = "awaitCopy"
    /\ op = "submit"
    /\ IF copyFails
       THEN /\ toast' = ErrorToast([NoFetch EXCEPT !.isError = TRUE,
                                      !.message = "Failed to copy"])
            /\ pc' = "awaitErrorToast"
            /\ UNCHANGED <<clipboard, hud>>
       ELSE /\ clipboard' = Some(lines)
            /\ hud' = Some("Meeting times copied to clipboard!")
            /\ pc' = "awaitHUD"
            /\ UNCHANGED toast
    /\ UNCHANGED <<isLoading, submitIn, notSubmitVars>>

\* showHUD settles: the try block ends and the finally block runs
SubmitHudShown ==
    /\ pc = "awaitHUD"
    /\ op = "submit"
    /\ isLoading' = Finally(isLoading)
    /\ pc' = "done"
    /\ UNCHANGED <<toast, clipboard, hud, submitIn, notSubmitVars>>

\* the toast of the catch block is shown: the finally block runs
SubmitErrorToastShown ==
    /\ pc = "awaitErrorToast"
    /\ op = "submit"
    /\ isLoading' = Finally(isLoading)
    /\ pc' = "done"
    /\ UNCHANGED <<toast, clipboard, hud, submitIn, notSubmitVars>>

\* the continuations of handleSubmit after an awaited call settled
SubmitStep ==
    \/ SubmitFetched
    \/ SubmitEmptyToastShown
    \/ SubmitCopied
    \/ SubmitHudShown
    \/ SubmitErrorToastShown

Next ==
    \/ CallSelectSmartSlots
    \/ CallGetTimeBucket
    \/ CallDetectGaps
    \/ CallScoreSlotByProximity
    \/ CallGenerateMessage
    \/ CalcomStart
    \/ CalcomEventTypeReply
    \/ CalcomEventTypeBody
    \/ CalcomSlotsReply
    \/ CalcomSlotsBody
    \/ SavvycalStart
    \/ SavvycalLinksReply
    \/ SavvycalLinksBody
    \/ SavvycalLinkInfoSettled
    \/ SavvycalSlotsReply
    \/ SavvycalSlotsBody
    \/ SubmitStart
    \/ SubmitStep

Spec == Init /\ [][Next]_vars

\* the command alone: one submission of the form
SubmitInit ==
    /\ pc = "ready"
    /\ NoOutputs
    /\ NoProvider
    /\ InitSubmit

SubmitNext ==
    \/ SubmitStart
    \/ SubmitStep

\* every awaited call settles and its continuation runs
SubmitSpec == SubmitInit /\ [][SubmitNext]_vars /\ WF_vars(SubmitStep)

----------------------------------------------------------------------------
(* Vocabulary of the properties *)

SelectDone == pc = "done" /\ op = "select"

BucketDone == pc = "done" /\ op = "bucket"

\* the start_at strings of a slot list
StartValues(xs) == {xs[i].start_at : i \in 1..Len(xs)}

\* the start instants of a slot list
StartInstants(xs) == {ParseDate(xs[i].start_at) : i \in 1..Len(xs)}

Elements(xs) == {xs[i] : i \in 1..Len(xs)}

BucketsOf(xs, tz) == {GetTimeBucket(xs[i], tz) : i \in 1..Len(xs)}

\* the call took the scoring path (more deduplicated slots than maxSlots)
ScoredPath == SelectDone /\ Len(uniqueSlots) > maxSlots

----------------------------------------------------------------------------
(* C1 - C4: size, duplicates, order and pass-through of the output *)

\* C1: for maxSlots >= 1 the output has exactly min(maxSlots, D) slots,
\* D being the number of distinct start_at values of the input.
C1_ExactCount ==
    (SelectDone /\ maxSlots >= 1) =>
        Len(result) = Min(maxSlots, Cardinality(StartValues(slots)))

\* C1 witness: scored path, all slots in one bucket and no gap, maxSlots
\* slots returned.
C1_Witness ==
    /\ ScoredPath
    /\ maxSlots >= 1
    /\ gaps = <<>>
    /\ diversitySlot = <<>>
    /\ Len(result) = maxSlots

\* C2: no two slots of the output denote the same start instant.
C2_NoSameInstant ==
    SelectDone =>
        \A i, j \in 1..Len(result) :
            i # j => ParseDate(result[i].start_at) # ParseDate(result[j].start_at)

\* C3: the output is strictly ascending by start instant.
C3_StrictlyAscending ==
    SelectDone =>
        \A i \in 1..(Len(result) - 1) :
            ParseDate(result[i].start_at) < ParseDate(result[i + 1].start_at)

\* C4: when the input has at most maxSlots distinct start_at values, the
\* output holds exactly one unaltered input slot per distinct start_at, in
\* ascending order of start, whatever the length of the input.
C4_PassThrough ==
    (SelectDone /\ Cardinality(StartValues(slots)) <= maxSlots) =>
        /\ Len(result) = Cardinality(StartValues(slots))
        /\ StartValues(result) = StartValues(slots)
        /\ Elements(result) \subseteq Elements(slots)
        /\ \A i \in 1..(Len(result) - 1) :
              ParseDate(result[i].start_at) <= ParseDate(result[i + 1].start_at)

\* C4 witness: an unsorted input longer than maxSlots only because of a
\* duplicate is passed through.
C4_Witness ==
    /\ SelectDone
    /\ Len(slots) > maxSlots
    /\ Cardinality(StartValues(slots)) <= maxSlots
    /\ ParseDate(slots[1].start_at) > ParseDate(slots[2].start_at)
    /\ Len(result) = 2
    /\ ParseDate(result[1].start_at) < ParseDate(result[2].start_at)

----------------------------------------------------------------------------
(* C5: order of the input *)

Reverse(xs) == Array([i \in 1..Len(xs) |-> xs[Len(xs) + 1 - i]], Len(xs))

PermsOf(xs) ==
    {Array([i \in 1..Len(xs) |-> xs[f[i]]], Len(xs)) :
        f \in Permutations(1..Len(xs))}

\* every reordering of a short list, the reversal of a long one
Reorderings(xs) == IF Len(xs) <= PermLen THEN PermsOf(xs) ELSE {Reverse(xs)}

DistinctInstants(xs) == Cardinality(StartInstants(xs)) = Len(xs)

PosIn(x, xs) == CHOOSE i \in 1..Len(xs) : xs[i] = x

\* p lists the slots of equal score in the same relative order as xs does
SameTieOrder(p, xs, gs) ==
    \A i, j \in 1..Len(xs) :
        (i < j /\ ScoreSlotByProximity(xs[i], gs) = ScoreSlotByProximity(xs[j], gs))
            => PosIn(xs[i], p) < PosIn(xs[j], p)

\* C5 as stated: the output is the same for every reordering of an input
\* whose slots have distinct start instants.
C5_OrderIndependent ==
    (SelectDone /\ DistinctInstants(slots)) =>
        \A p \in Reorderings(slots) :
            SelectSmartSlots(p, timezone, maxSlots) = result

\* C5 amended: the output is the same for every reordering that keeps the
\* relative order of the slots of equal score, and for every reordering at
\* all on the pass-through path.
C5_OrderIndependentUpToTies ==
    (SelectDone /\ DistinctInstants(slots)) =>
        \A p \in Reorderings(slots) :
            (Len(uniqueSlots) <= maxSlots \/ SameTieOrder(p, slots, gaps))
                => SelectSmartSlots(p, timezone, maxSlots) = result

\* C5 witness: a scored call whose input has a different ordering with the
\* same order of ties, for which the output is the same.
C5_Witness ==
    /\ ScoredPath
    /\ DistinctInstants(slots)
    /\ maxSlots >= 1
    /\ \E p \in Reorderings(slots) :
          /\ p # slots
          /\ SameTieOrder(p, slots, gaps)
          /\ SelectSmartSlots(p, timezone, maxSlots) = result

----------------------------------------------------------------------------
(* C6 - C8: diversity and batching *)

\* C6: on the scored path with maxSlots >= 1 and slots in more than one
\* bucket, some output slot lies outside the majority bucket.
C6_DiversityKept ==
    (ScoredPath /\ maxSlots >= 1
        /\ Cardinality(BucketsOf(uniqueSlots, timezone)) > 1) =>
        \E i \in 1..Len(result) :
            GetTimeBucket(result[i], timezone) # majorityBucket

\* C6 witness: the best-scored slot is in the majority bucket and a single
\* slot is asked for; the slot returned is the diversity slot.
C6_Witness ==
    /\ ScoredPath
    /\ maxSlots = 1
    /\ Cardinality(BucketsOf(uniqueSlots, timezone)) > 1
    /\ scoredSlots[1].bucket = majorityBucket
    /\ diversitySlot # <<>>
    /\ result = <<diversitySlot[1].slot>>

\* C7: on the scored path with maxSlots >= 2 and input slots in at least
\* two buckets, the output slots lie in at least two buckets.
C7_TwoBuckets ==
    (ScoredPath /\ maxSlots >= 2
        /\ Cardinality(BucketsOf(slots, timezone)) >= 2) =>
        Cardinality(BucketsOf(result, timezone)) >= 2

\* C8 as stated: on the scored path with maxSlots >= 2 and exactly one gap,
\* the slot at gap.start and the slot at gap.end are both in the output.
C8_BothFlanks ==
    (ScoredPath /\ maxSlots >= 2 /\ Len(gaps) = 1) =>
        /\ gaps[1].start \in StartInstants(result)
        /\ gaps[1].end \in StartInstants(result)

\* C8 amended: with exactly one gap, maxSlots >= 2 keeps at least one slot
\* at a boundary of the gap; maxSlots >= 3 keeps at least two, which are
\* the slot at gap.start and the slot at gap.end when the deduplicated
\* slots have distinct start instants.
C8_FlanksKept ==
    (ScoredPath /\ Len(gaps) = 1) =>
        LET atEdge == {i \in 1..Len(result) :
                ParseDate(result[i].start_at) \in {gaps[1].start, gaps[1].end}}
        IN  /\ maxSlots >= 2 => atEdge # {}
            /\ maxSlots >= 3 => Cardinality(atEdge) >= 2
            /\ (maxSlots >= 3 /\ DistinctInstants(uniqueSlots)) =>
                  /\ gaps[1].start \in StartInstants(result)
                  /\ gaps[1].end \in StartInstants(result)

\* C8 witness: one gap, three slots asked for, the diversity slot is not at
\* the gap, and both flanking slots are returned.
C8_Witness ==
    /\ ScoredPath
    /\ maxSlots = 3
    /\ Len(gaps) = 1
    /\ diversitySlot # <<>>
    /\ ParseDate(diversitySlot[1].slot.start_at) \notin {gaps[1].start, gaps[1].end}
    /\ {gaps[1].start, gaps[1].end} \subseteq StartInstants(result)

----------------------------------------------------------------------------
(* C9: the worked example *)

\* 09:00, 09:30, 10:00, 14:00, 14:30, 15:00, 15:30, 16:00
C9_Input ==
    <<MkSlot(540, 0, 30), MkSlot(570, 0, 30), MkSlot(600, 0, 30),
      MkSlot(840, 0, 30), MkSlot(870, 0, 30), MkSlot(900, 0, 30),
      MkSlot(930, 0, 30), MkSlot(960, 0, 30)>>

\* C9: for the example input, UTC and maxSlots = 4, the only gap is
\* 10:00 -> 14:00 and the output is [09:30, 10:00, 14:00, 14:30].
C9_Example ==
    (SelectDone /\ slots = C9_Input /\ timezone = "UTC" /\ maxSlots = 4) =>
        /\ gaps = <<[start |-> 600, end |-> 840]>>
        /\ result = <<MkSlot(570, 0, 30), MkSlot(600, 0, 30),
                      MkSlot(840, 0, 30), MkSlot(870, 0, 30)>>

\* C9 witness: the example call has run and returned four slots.
C9_Witness ==
    /\ SelectDone
    /\ slots = C9_Input
    /\ timezone = "UTC"
    /\ maxSlots = 4
    /\ Len(result) = 4

----------------------------------------------------------------------------
(* C10: buckets by wall-clock hour *)

\* the hour a clock in the zone shows at the slot's start
WallClockHour(slot, tz) ==
    CHOOSE h \in 0..23 :
        \E d \in -1..1, m \in 0..59 :
            ParseDate(slot.start_at) + ZoneOffset(tz)
                = d * MinutesPerDay + 60 * h + m

\* C10: for a wall-clock hour h in 6..23 of the given zone, the bucket is
\* morning iff h < 12, afternoon iff 12 <= h < 17, evening iff h >= 17.
C10_BucketByLocalHour ==
    BucketDone =>
        LET h == WallClockHour(slots[1], timezone)
        IN  h \in 6..23 =>
              /\ bucketOut = "morning" <=> (6 <= h /\ h < 12)
              /\ bucketOut = "afternoon" <=> (12 <= h /\ h < 17)
              /\ bucketOut = "evening" <=> h >= 17

\* C10 witness: 17:00 UTC or later is classified afternoon in a zone west
\* of UTC, although the UTC hour is an evening hour.
C10_Witness ==
    /\ BucketDone
    /\ timezone # "UTC"
    /\ WallClockHour(slots[1], timezone) \in 12..16
    /\ WallClockHour(slots[1], "UTC") >= 17
    /\ bucketOut = "afternoon"

----------------------------------------------------------------------------
(* C11: hours outside the 6-21 window *)

\* C11: a slot whose wall-clock hour is before 6 or from 21 on is classified
\* evening.
C11_NightIsEvening ==
    BucketDone =>
        LET h == WallClockHour(slots[1], timezone)
        IN  (h < 6 \/ h >= 21) => bucketOut = "evening"

----------------------------------------------------------------------------
(* C12: detectGaps *)

GapsDone == pc = "done" /\ op = "gaps"

ScoreDone == pc = "done" /\ op = "score"

\* the start instants b that follow a with no slot starting in between
Consecutive(xs, a, b) ==
    /\ a \in StartInstants(xs)
    /\ b \in StartInstants(xs)
    /\ a < b
    /\ \A c \in StartInstants(xs) : ~(a < c /\ c < b)

\* one gap per pair of consecutive starts more than 1.5 increments apart
ExpectedGaps(xs, inc) ==
    {[start |-> a, end |-> b] : a, b \in StartInstants(xs)}
        \cap {g \in [start : StartInstants(xs), end : StartInstants(xs)] :
                Consecutive(xs, g.start, g.end)
                /\ 2 * (g.end - g.start) > 3 * inc}

\* C12: detectGaps returns, in chronological order, exactly one gap for
\* each pair of consecutive starts whose difference exceeds 1.5 times the
\* increment, none for fewer than 2 slots, and the same for every ordering
\* of the input.
C12_GapsExact ==
    GapsDone =>
        /\ {gaps[i] : i \in 1..Len(gaps)} = ExpectedGaps(slots, increment)
        /\ Len(gaps) = Cardinality(ExpectedGaps(slots, increment))
        /\ \A i \in 1..(Len(gaps) - 1) : gaps[i].start < gaps[i + 1].start
        /\ Len(slots) < 2 => gaps = <<>>
        /\ \A p \in Reorderings(slots) :
              DetectGaps(p, timezone, increment) = gaps

\* C12 witness: an unsorted input with the default increment, a step of
\* exactly 45 minutes that is no gap, and a larger step that is one.
C12_Witness ==
    /\ GapsDone
    /\ increment = 30
    /\ Len(slots) = 3
    /\ ParseDate(slots[1].start_at) > ParseDate(slots[2].start_at)
    /\ Consecutive(slots, 720, 765)
    /\ gaps = <<[start |-> 660, end |-> 720]>>

----------------------------------------------------------------------------
(* C13: scoreSlotByProximity *)

\* minutes from the slot start to the nearest boundary of any gap
NearestBoundary(slot, gs) ==
    LET t == ParseDate(slot.start_at)
        D == UNION {{Abs(t - gs[i].start), Abs(t - gs[i].end)} : i \in 1..Len(gs)}
    IN  CHOOSE m \in D : \A d \in D : m <= d

\* C13: the score is 1/2 without gaps and otherwise 1 / (1 + m / 30) for
\* the distance m to the nearest gap boundary: 1 at 0, 1/2 at 30 and 1/3 at
\* 60 minutes.
C13_ScoreFormula ==
    ScoreDone =>
        IF gapsIn = <<>>
        THEN scoreOut = [num |-> 1, den |-> 2]
        ELSE LET m == NearestBoundary(slots[1], gapsIn)
             IN  /\ scoreOut.num * (30 + m) = 30 * scoreOut.den
                 /\ m = 0 => scoreOut = [num |-> 1, den |-> 1]
                 /\ m = 30 => scoreOut = [num |-> 1, den |-> 2]
                 /\ m = 60 => scoreOut = [num |-> 1, den |-> 3]

\* C13 witness: of two gaps the second is the nearer one, 60 minutes away,
\* and the score is 1/3.
C13_Witness ==
    /\ ScoreDone
    /\ Len(gapsIn) = 2
    /\ NearestBoundary(slots[1], gapsIn) = 60
    /\ NearestBoundary(slots[1], <<gapsIn[1]>>) > 60
    /\ scoreOut = [num |-> 1, den |-> 3]

----------------------------------------------------------------------------
(* C15 - C17: the providers *)

CalcomCall == op = "calcom"

SavvycalCall == op = "savvycal"

\* the call has ended, by returning or by throwing
Ended == pc \in {"done", "rejected"}

\* the endpoints of the requests issued so far, in order
Endpoints == Array([i \in 1..Len(requests) |-> requests[i].endpoint], Len(requests))

\* C15: calcomProvider.fetchSlots checks the config, then requests the
\* event type, then the slots, and stops at the first failure: a missing
\* username or slug rejects with no request, a non-ok event-type reply
\* rejects with no slots request, a non-ok or unparseable slots reply
\* rejects, and a resolved call issued exactly the two requests in order.
C15_CalcomOrder ==
    CalcomCall =>
        LET missing == config.calcomUsername = "" \/ config.calcomEventSlug = ""
        IN  /\ \E n \in 0..2 :
                  Endpoints = SubSeq(<<"/v2/event-types", "/v2/slots">>, 1, n)
            /\ (missing /\ pc # "ready") =>
                  /\ pc = "rejected"
                  /\ error.message = "Cal.com username and event slug are required"
                  /\ requests = <<>>
            /\ (~missing /\ ~replies[1].ok /\ Ended) =>
                  /\ pc = "rejected"
                  /\ Endpoints = <<"/v2/event-types">>
            /\ (~missing /\ replies[1].ok /\ Ended
                    /\ (~replies[2].ok \/ ~replies[2].json)) =>
                  /\ pc = "rejected"
                  /\ Endpoints = <<"/v2/event-types", "/v2/slots">>
            /\ pc = "done" =>
                  /\ Endpoints = <<"/v2/event-types", "/v2/slots">>
                  /\ fetched # None
                  /\ error = NoError
            /\ pc = "rejected" => fetched = None /\ error # NoError

\* C15 witness: both requests were issued and the slots body did not parse.
C15_Witness ==
    /\ CalcomCall
    /\ pc = "rejected"
    /\ replies[2].ok
    /\ ~replies[2].json
    /\ Len(requests) = 2
    /\ error.message = "Invalid JSON from Cal.com"

\* the event type the event-types reply gave, if any
Obtained == replies[1].json /\ replies[1].data # <<>>

\* the slot starts of a slots reply before day d
RECURSIVE StartsBefore(_, _)
StartsBefore(days, d) ==
    IF d <= 1 THEN 0 ELSE StartsBefore(days, d - 1) + Len(days[d - 1])

\* the result of a resolved Cal.com call follows the reply with duration D
CalcomResultWith(D) ==
    LET days == replies[2].data
        out == fetched[1].slots
        info == fetched[1].linkInfo
        opts == IF Obtained THEN replies[1].data[1].lengthInMinutesOptions
                ELSE None
    IN  /\ Len(out) = StartsBefore(days, Len(days) + 1)
        /\ \A d \in 1..Len(days) : \A k \in 1..Len(days[d]) :
              LET slot == out[StartsBefore(days, d) + k]
              IN  /\ slot.start_at = days[d][k]
                  /\ ParseDate(slot.end_at) = ParseDate(days[d][k]) + D
        /\ info.defaultDuration = D
        /\ info.durations = IF opts # None /\ opts[1] # <<>> THEN opts[1]
                            ELSE <<D>>

\* C16 as stated: D is the event type's lengthInMinutes, or 30 when no
\* event type was obtained.
C16_LengthOrThirty ==
    (CalcomCall /\ pc = "done") =>
        CalcomResultWith(IF Obtained THEN replies[1].data[1].lengthInMinutes
                         ELSE 30)

\* C16: a resolved call returns one slot per slot of the reply, in reply
\* order, each ending D minutes after its start; defaultDuration is D and
\* durations is lengthInMinutesOptions when non-empty, else [D].  D is the
\* event type's lengthInMinutes when an event type was obtained and that
\* length is not 0 or missing, and 30 otherwise.
C16_LengthUnlessFalsy ==
    (CalcomCall /\ pc = "done") =>
        CalcomResultWith(IF Obtained /\ replies[1].data[1].lengthInMinutes # 0
                         THEN replies[1].data[1].lengthInMinutes
                         ELSE 30)

\* C16 witness: a 45 minute event type and slots on two days, the second
\* slot ending 45 minutes after its start.
C16_Witness ==
    /\ CalcomCall
    /\ pc = "done"
    /\ Obtained
    /\ replies[1].data[1].lengthInMinutes = 45
    /\ Len(replies[2].data) = 2
    /\ Len(replies[2].data[1]) = 1
    /\ Len(replies[2].data[2]) = 1
    /\ replies[2].data[1][1] # replies[2].data[2][1]
    /\ Len(fetched[1].slots) = 2
    /\ fetched[1].slots[2].start_at = replies[2].data[2][1]
    /\ ParseDate(fetched[1].slots[2].end_at)
          = ParseDate(replies[2].data[2][1]) + 45

\* the positions of the links reply whose link has the configured slug
Matching ==
    IF replies[1].ok /\ replies[1].json /\ replies[1].shape # "object"
    THEN {i \in 1..Len(replies[1].links) :
            replies[1].links[i].slug = config.savvycalLink}
    ELSE {}

\* C17: savvycalProvider.fetchSlots checks the config, then requests the
\* links, then the slots of the matched link, and stops at the first
\* failure: a missing token or slug rejects with no request, a non-ok links
\* reply or one without a link of the configured slug rejects with no slots
\* request, and a resolved call issued exactly /v1/links and then
\* /v1/links/{id}/slots with the id of the matched link.
C17_SavvycalOrder ==
    SavvycalCall =>
        LET missing == config.savvycalToken = "" \/ config.savvycalLink = ""
        IN  /\ \E n \in 0..2 :
                  Endpoints = SubSeq(<<"/v1/links", "/v1/links/{id}/slots">>, 1, n)
            /\ (missing /\ pc # "ready") =>
                  /\ pc = "rejected"
                  /\ error.message = "SavvyCal token and link slug are required"
                  /\ requests = <<>>
            /\ (~missing /\ Ended /\ (~replies[1].ok \/ Matching = {})) =>
                  /\ pc = "rejected"
                  /\ Endpoints = <<"/v1/links">>
            /\ pc = "done" =>
                  /\ Endpoints = <<"/v1/links", "/v1/links/{id}/slots">>
                  /\ Matching # {}
                  /\ \E i \in Matching :
                        /\ \A j \in Matching : i <= j
                        /\ requests[2].params = <<replies[1].links[i].id>>
                  /\ fetched # None
            /\ pc = "rejected" => fetched = None /\ error # NoError

\* C17 witness: the second of two links has the configured slug and the
\* slots request names its id.
C17_Witness ==
    /\ SavvycalCall
    /\ pc = "done"
    /\ Matching = {2}
    /\ replies[1].links[1].id # replies[1].links[2].id
    /\ requests[2].params = <<replies[1].links[2].id>>

----------------------------------------------------------------------------
(* C18: the message *)

MessageDone == pc = "done" /\ op = "message"

\* C18: every day of the message shows exactly the slots
\* selectSmartSlots(daySlots, timezone, 4) returns, in the same order.
C18_MessageIsSmart ==
    MessageDone =>
        \A k \in 1..Len(lines) :
            lines[k].displaySlots
                = SelectSmartSlots(lines[k].daySlots, timezone, SlotsPerDay)

----------------------------------------------------------------------------
(* C19, C20: limit and majority bucket of selectSmartSlots *)

\* C19: the output has at most maxSlots slots, for maxSlots = 0 too.
C19_AtMostMax == SelectDone => Len(result) <= maxSlots

\* the entries of the score-sorted list the majority is taken from
HalfCount == (Len(scoredSlots) + 1) \div 2

\* slots of bucket b among the first HalfCount entries of the sorted list
CountInHalf(b) ==
    Cardinality({i \in 1..HalfCount :
                    GetTimeBucket(scoredSlots[i].slot, timezone) = b})

\* C20: on the scored path the list is in descending score order and the
\* majority bucket is the one with the highest count among its first
\* ceil(n/2) entries, the earliest of morning, afternoon, evening on a tie;
\* that count is at least one.
C20_MajorityOfTopHalf ==
    ScoredPath =>
        /\ Len(scoredSlots) = Len(uniqueSlots)
        /\ \A i \in 1..(Len(scoredSlots) - 1) :
              ~ScoreLess(scoredSlots[i].score, scoredSlots[i + 1].score)
        /\ \E m \in 1..Len(Buckets) :
              /\ majorityBucket = Buckets[m]
              /\ \A b \in 1..Len(Buckets) :
                    CountInHalf(Buckets[b]) <= CountInHalf(Buckets[m])
              /\ \A b \in 1..(m - 1) :
                    CountInHalf(Buckets[b]) < CountInHalf(Buckets[m])
              /\ CountInHalf(Buckets[m]) >= 1

\* C20 witness: an odd number of slots, a tie between morning and afternoon
\* in the top half resolved for morning, although the whole list has more
\* afternoon slots.
C20_Witness ==
    /\ ScoredPath
    /\ Len(scoredSlots) % 2 = 1
    /\ CountInHalf("morning") = CountInHalf("afternoon")
    /\ CountInHalf("morning") >= 1
    /\ majorityBucket = "morning"
    /\ Cardinality({i \in 1..Len(scoredSlots) :
                        scoredSlots[i].bucket = "afternoon"})
          > Cardinality({i \in 1..Len(scoredSlots) :
                            scoredSlots[i].bucket = "morning"})

----------------------------------------------------------------------------
(* C21, C22: diversity slot and fill *)

\* the scored entries outside the majority bucket
OutsideMajority ==
    {i \in 1..Len(scoredSlots) :
        GetTimeBucket(scoredSlots[i].slot, timezone) # majorityBucket}

\* C21: on the scored path a diversity slot exists iff some deduplicated
\* slot lies outside the majority bucket, which is iff the slots do not all
\* share one bucket; its score is >= that of every slot outside the
\* majority bucket.
C21_DiversityIsBestOutside ==
    ScoredPath =>
        /\ diversitySlot # <<>>
              <=> \E i \in 1..Len(uniqueSlots) :
                      GetTimeBucket(uniqueSlots[i], timezone) # majorityBucket
        /\ diversitySlot # <<>>
              <=> Cardinality(BucketsOf(uniqueSlots, timezone)) > 1
        /\ diversitySlot # <<>> =>
              /\ \E i \in OutsideMajority : scoredSlots[i] = diversitySlot[1]
              /\ \A i \in OutsideMajority :
                    ~ScoreLess(diversitySlot[1].score, scoredSlots[i].score)

\* C21 witness: two slots lie outside the majority bucket and the diversity
\* slot is the one with the strictly higher score.
C21_Witness ==
    /\ ScoredPath
    /\ diversitySlot # <<>>
    /\ Cardinality(OutsideMajority) >= 2
    /\ \E i \in OutsideMajority :
          ScoreLess(scoredSlots[i].score, diversitySlot[1].score)

\* the scored entry of an output slot
EntryOf(slot) ==
    CHOOSE e \in Elements(scoredSlots) : e.slot = slot

\* the scored entries whose slot is not in the output
NotSelected == {e \in Elements(scoredSlots) : e.slot \notin Elements(result)}

\* C22: on the scored path every output slot other than the diversity slot
\* scores >= every slot left out, and without a diversity slot the output
\* holds exactly the first maxSlots entries of the score-descending list.
C22_FillByScore ==
    ScoredPath =>
        /\ \A i \in 1..Len(result) :
              (diversitySlot = <<>> \/ result[i] # diversitySlot[1].slot) =>
                  \A e \in NotSelected :
                      ~ScoreLess(EntryOf(result[i]).score, e.score)
        /\ diversitySlot = <<>> =>
              /\ Len(result) = maxSlots
              /\ Elements(result)
                    = {scoredSlots[i].slot : i \in 1..maxSlots}
              /\ \A i \in 1..maxSlots : \A j \in (maxSlots + 1)..Len(scoredSlots) :
                    ~ScoreLess(scoredSlots[i].score, scoredSlots[j].score)

\* C22 witness: a diversity slot and a filled slot are returned, and a slot
\* with a strictly lower score than the filled one is left out.
C22_Witness ==
    /\ ScoredPath
    /\ maxSlots >= 2
    /\ diversitySlot # <<>>
    /\ \E i \in 1..Len(result) :
          /\ result[i] # diversitySlot[1].slot
          /\ \E e \in NotSelected : ScoreLess(e.score, EntryOf(result[i]).score)

----------------------------------------------------------------------------
(* C23, C24: duplicates and shape of the gaps *)

\* xs without the slots whose start instant occurred earlier in xs
FirstOfEachInstant(xs) ==
    LET idx == {i \in 1..Len(xs) :
                    \A j \in 1..(i - 1) :
                        ParseDate(xs[j].start_at) # ParseDate(xs[i].start_at)}
        nth(k) == CHOOSE i \in idx : Cardinality({j \in idx : j < i}) = k - 1
    IN  [k \in 1..Cardinality(idx) |-> xs[nth(k)]]

\* xs without the slots whose start_at string occurred earlier in xs
FirstOfEachString(xs) ==
    LET idx == {i \in 1..Len(xs) :
                    \A j \in 1..(i - 1) : xs[j].start_at # xs[i].start_at}
        nth(k) == CHOOSE i \in idx : Cardinality({j \in idx : j < i}) = k - 1
    IN  [k \in 1..Cardinality(idx) |-> xs[nth(k)]]

\* C23: detectGaps gives the same gaps for a list and for the list without
\* its duplicates by start (same instant, or same string), and no gap lies
\* between two slots of the same start.
C23_DuplicatesHarmless ==
    GapsDone =>
        /\ gaps = DetectGaps(FirstOfEachInstant(slots), timezone, increment)
        /\ gaps = DetectGaps(FirstOfEachString(slots), timezone, increment)
        /\ \A i \in 1..Len(gaps) : gaps[i].start # gaps[i].end

\* C23 witness: an unsorted list repeats a start instant in both spellings
\* and the one gap of the list without the repetition is found.
C23_Witness ==
    /\ GapsDone
    /\ Len(slots) = 3
    /\ Len(FirstOfEachInstant(slots)) = 2
    /\ Len(FirstOfEachString(slots)) = 3
    /\ ParseDate(slots[1].start_at) > ParseDate(slots[2].start_at)
    /\ Len(gaps) = 1

\* C24: the gaps are in chronological order and do not overlap, each is
\* longer than 1.5 increments, starts and ends at the start of an input
\* slot and has no input slot starting strictly inside; a slot with a gap on
\* either side ends one gap and starts the next, the two are not merged.
C24_GapsWellFormed ==
    GapsDone =>
        /\ \A i \in 1..(Len(gaps) - 1) :
              /\ gaps[i].start < gaps[i + 1].start
              /\ gaps[i].end <= gaps[i + 1].start
        /\ \A i \in 1..Len(gaps) :
              /\ 2 * (gaps[i].end - gaps[i].start) > 3 * increment
              /\ gaps[i].start \in StartInstants(slots)
              /\ gaps[i].end \in StartInstants(slots)
              /\ \A t \in StartInstants(slots) :
                    ~(gaps[i].start < t /\ t < gaps[i].end)
        /\ \A a, b, c \in StartInstants(slots) :
              (/\ Consecutive(slots, a, b)
               /\ Consecutive(slots, b, c)
               /\ 2 * (b - a) > 3 * increment
               /\ 2 * (c - b) > 3 * increment) =>
                  \E i \in 1..(Len(gaps) - 1) :
                      /\ gaps[i] = [start |-> a, end |-> b]
                      /\ gaps[i + 1] = [start |-> b, end |-> c]

\* C24 witness: slots at 10:00, 12:00 and 14:00 give the two gaps
\* 10:00-12:00 and 12:00-14:00 around the isolated slot.
C24_Witness ==
    /\ GapsDone
    /\ increment = 30
    /\ StartInstants(slots) = {600, 720, 840}
    /\ gaps = <<[start |-> 600, end |-> 720], [start |-> 720, end |-> 840]>>

----------------------------------------------------------------------------
(* C25, C26: range and decay of the score, scores inside selectSmartSlots *)

\* the boundaries of a gap list
Boundaries(gs) == UNION {{gs[i].start, gs[i].end} : i \in 1..Len(gs)}

One == [num |-> 1, den |-> 1]

\* C25: with a non-empty gap list the score lies in (0, 1], is 1 exactly
\* when the slot starts on a gap boundary, is strictly smaller for a slot
\* farther from its nearest boundary, and is the same for a slot at the same
\* distance, before or after a boundary.
C25_ScoreDecays ==
    (ScoreDone /\ gapsIn # <<>>) =>
        /\ 0 < scoreOut.num
        /\ scoreOut.num <= scoreOut.den
        /\ scoreOut = One <=> ParseDate(slots[1].start_at) \in Boundaries(gapsIn)
        /\ \A other \in ScoreSlots :
              LET d1 == NearestBoundary(slots[1], gapsIn)
                  d2 == NearestBoundary(other, gapsIn)
                  score2 == ScoreSlotByProximity(other, gapsIn)
              IN  /\ d1 < d2 => ScoreLess(score2, scoreOut)
                  /\ d1 = d2 => score2 = scoreOut

\* C25 witness: 09:30 lies 30 minutes before the gap 10:00-14:00 and 10:30
\* lies 30 minutes after its start; both score 1/2, and 09:00 scores less.
C25_Witness ==
    /\ ScoreDone
    /\ gapsIn = <<[start |-> 600, end |-> 840]>>
    /\ ParseDate(slots[1].start_at) = 570
    /\ scoreOut = [num |-> 1, den |-> 2]
    /\ ScoreSlotByProximity(MkSlot(630, 0, 30), gapsIn) = scoreOut
    /\ ScoreLess(ScoreSlotByProximity(MkSlot(540, 0, 30), gapsIn), scoreOut)

\* every two slots of xs start more than m minutes apart
AllApart(xs, m) ==
    \A i, j \in 1..Len(xs) :
        i # j => Abs(ParseDate(xs[i].start_at) - ParseDate(xs[j].start_at)) > m

\* C26: on the scored path the gaps are those of the 30 minute increment
\* whatever the spacing; when there are gaps every slot starting on a gap
\* boundary scores 1, and when the (two or more) deduplicated slots are all
\* more than 45 minutes apart every slot scores 1.
C26_DefaultIncrement ==
    ScoredPath =>
        /\ Elements(gaps) = ExpectedGaps(uniqueSlots, 30)
        /\ \A i \in 1..Len(scoredSlots) :
              ParseDate(scoredSlots[i].slot.start_at) \in Boundaries(gaps)
                  => scoredSlots[i].score = One
        /\ (Len(uniqueSlots) >= 2 /\ AllApart(uniqueSlots, 45)) =>
              \A i \in 1..Len(scoredSlots) : scoredSlots[i].score = One

\* C26 witness: four slots one hour apart, three asked for, all score 1.
C26_Witness ==
    /\ ScoredPath
    /\ Len(uniqueSlots) = 4
    /\ maxSlots = 3
    /\ AllApart(uniqueSlots, 59)
    /\ Len(gaps) = 3
    /\ \A i \in 1..4 : scoredSlots[i].score = One

----------------------------------------------------------------------------
(* C27, C29: provenance of the output, order among equal scores *)

\* C27: every output slot is the first input slot with its start_at value,
\* start_at and end_at unchanged.
C27_FirstSeenWins ==
    SelectDone =>
        \A i \in 1..Len(result) :
            \E j \in 1..Len(slots) :
                /\ result[i] = slots[j]
                /\ \A k \in 1..(j - 1) : slots[k].start_at # result[i].start_at

\* C27 witness: the input holds the same start_at with two end_at values and
\* the output holds the first of the two.
C27_Witness ==
    /\ SelectDone
    /\ Len(slots) >= 2
    /\ slots[1].start_at = slots[2].start_at
    /\ slots[1].end_at # slots[2].end_at
    /\ slots[1] \in Elements(result)
    /\ slots[2] \notin Elements(result)

\* position of the first input slot with the start_at of slot
FirstSeen(slot) ==
    CHOOSE j \in 1..Len(slots) :
        /\ slots[j].start_at = slot.start_at
        /\ \A k \in 1..(j - 1) : slots[k].start_at # slot.start_at

\* C29: on the scored path slots of equal score stand in the score-sorted
\* list in the order of their first occurrence in the input; with no gaps
\* and one bucket the output holds the first maxSlots deduplicated slots of
\* the input, in chronological order.
C29_TiesByInputOrder ==
    ScoredPath =>
        /\ \A i, j \in 1..Len(scoredSlots) :
              (i < j /\ scoredSlots[i].score = scoredSlots[j].score) =>
                  FirstSeen(scoredSlots[i].slot) < FirstSeen(scoredSlots[j].slot)
        /\ (gaps = <<>> /\ Cardinality(BucketsOf(uniqueSlots, timezone)) = 1) =>
              /\ Len(result) = maxSlots
              /\ Elements(result)
                    = {FirstOfEachString(slots)[k] : k \in 1..maxSlots}
              /\ \A i \in 1..(Len(result) - 1) :
                    ParseDate(result[i].start_at) <= ParseDate(result[i + 1].start_at)

\* C29 witness: three slots of one bucket without a gap, given latest
\* first; the two asked for are the first two of the input, returned in
\* chronological order.
C29_Witness ==
    /\ ScoredPath
    /\ Len(slots) = 3
    /\ maxSlots = 2
    /\ gaps = <<>>
    /\ ParseDate(slots[1].start_at) > ParseDate(slots[2].start_at)
    /\ ParseDate(slots[2].start_at) > ParseDate(slots[3].start_at)
    /\ result = <<slots[2], slots[1]>>

----------------------------------------------------------------------------
(* C28: the caller's list *)

\* C28: no call changes the caller's slot list: it holds the same elements
\* in the same order after selectSmartSlots (either path) and detectGaps.
C28_InputUnchanged == [][slots' = slots]_vars

\* C28 witness: detectGaps has returned a gap for a list that is not in
\* chronological order.
C28_Witness ==
    /\ GapsDone
    /\ Len(slots) = 3
    /\ ParseDate(slots[1].start_at) > ParseDate(slots[2].start_at)
    /\ Len(gaps) >= 1

----------------------------------------------------------------------------
(* C30: handleSubmit *)

SubmitCall == op = "submit"

\* C30: an invocation that set isLoading to true sets it back to false,
\* whether fetchSlots returns slots, returns none or throws; the clipboard
\* is written only when fetchSlots returned at least one slot; an
\* invocation with a missing start or end date changes no state.
C30_LoadingEnds ==
    /\ (SubmitCall /\ isLoading) ~> (SubmitCall /\ ~isLoading /\ pc = "done")
    /\ [](clipboard # None =>
            (~fetchResult.throws /\ Len(fetchResult.slots) >= 1))
    /\ [][(SubmitCall /\ pc = "ready" /\ (startDate = None \/ endDate = None))
            => UNCHANGED <<submitIn, submitOut>>]_vars

\* C30 witness: fetchSlots threw an Error, its message was shown in a
\* toast, nothing was copied and isLoading is false again.
C30_Witness ==
    /\ SubmitCall
    /\ pc = "done"
    /\ fetchResult.throws
    /\ toast = Some([title |-> "Error", message |-> fetchResult.message])
    /\ fetchResult.message # ""
    /\ clipboard = None
    /\ ~isLoading

====
